---------------------------- MODULE Spec2Model ----------------------------
(***************************************************************************)
(* A model of the Anglamil Tutor front end: the request orchestration of   *)
(* services/geminiService.ts (translateText, translateImage, getDailyWord, *)
(* getVocabularyByCategory, speakText and its PCM16 decoder), the chat     *)
(* view (components/ChatTab.tsx), the translation view with its camera     *)
(* capture (components/TranslateTab.tsx) and the lesson browser            *)
(* (components/LearnTab.tsx), under the tab navigation of App.tsx.         *)
(*                                                                         *)
(* Texts are sequences of characters or tokens, so that trim() and the     *)
(* JSON reader work on their characters and tokens.  The external service  *)
(* is an opaque source of responses: every response a call can get is      *)
(* drawn from a small set.                                                 *)
(***************************************************************************)
EXTENDS Integers, Sequences, FiniteSets, TLC

(***************************************************************************)
(* Bounds of the model.                                                    *)
(***************************************************************************)
MaxBytes == 4
MaxBatch == 2
MaxSends == 2
MaxRequests == 2
MaxStreams == 2
MaxCameraRequests == 1
MaxLessonCalls == 2
MaxSpeech == 1

(***************************************************************************)
(* JavaScript values.                                                      *)
(***************************************************************************)
\* The value of a property that is absent (undefined).
Undefined == "<undefined>"

Resolved(v) == [status |-> "resolved", value |-> v]

Rejected(e) == [status |-> "rejected", error |-> e]

(***************************************************************************)
(* Responses of the generative service.  A call either rejects (transport, *)
(* auth) or yields a response whose text may be absent.  A JSON text is a  *)
(* sequence of tokens: "null", an object "{" field ... "}" or an array     *)
(* "[" item ... "]"; anything else is malformed.                           *)
(***************************************************************************)
CallRejects == [status |-> "rejected", hasText |-> FALSE, text |-> <<>>]

NoText == [status |-> "ok", hasText |-> FALSE, text |-> <<>>]

TextResponse(t) == [status |-> "ok", hasText |-> TRUE, text |-> t]

\* response.text || dflt : undefined and "" are falsy.
TextOr(response, dflt) ==
    IF response.hasText /\ response.text # <<>> THEN response.text ELSE dflt

FieldNames ==
    {"translated", "pronunciation", "grammarNotes", "word", "definition",
     "tamilMeaning", "exampleSentence", "exampleTamil"}

\* The string the service puts in a field of an object.
FieldValue(f) ==
    CASE f = "translated" -> "t"
      [] f = "pronunciation" -> "p"
      [] f = "grammarNotes" -> "g"
      [] f = "word" -> "w"
      [] f = "definition" -> "d"
      [] f = "tamilMeaning" -> "m"
      [] f = "exampleSentence" -> "e"
      [] f = "exampleTamil" -> "x"

\* Array items: two complete vocabulary items and one lacking fields.
ItemTokens == {"i1", "i2", "i3"}

ItemObject(tok) ==
    CASE tok = "i1" -> [word |-> "w1", definition |-> "d1", tamilMeaning |-> "m1",
                        exampleSentence |-> "e1", exampleTamil |-> "x1"]
      [] tok = "i2" -> [word |-> "w2", definition |-> "d2", tamilMeaning |-> "m2",
                        exampleSentence |-> "e2", exampleTamil |-> "x2"]
      [] tok = "i3" -> [word |-> "w3"]

Inner(t) == SubSeq(t, 2, Len(t) - 1)

\* JSON.parse: the parsed value, or a thrown SyntaxError.
JSONparse(t) ==
    IF t = <<"null">> THEN [kind |-> "null"]
    ELSE IF Len(t) >= 2 /\ t[1] = "{" /\ t[Len(t)] = "}"
            /\ \A i \in 2..(Len(t) - 1) : t[i] \in FieldNames
    THEN [kind |-> "object",
          obj |-> [f \in {t[i] : i \in 2..(Len(t) - 1)} |-> FieldValue(f)]]
    ELSE IF Len(t) >= 2 /\ t[1] = "[" /\ t[Len(t)] = "]"
            /\ \A i \in 2..(Len(t) - 1) : t[i] \in ItemTokens
    THEN [kind |-> "array",
          arr |-> [i \in 1..(Len(t) - 2) |-> ItemObject(Inner(t)[i])]]
    ELSE [kind |-> "throw"]

\* json.f : the property f of a parsed value that is not null.
Prop(json, f) ==
    IF json.kind = "object" /\ f \in DOMAIN json.obj THEN json.obj[f]
    ELSE Undefined


(***************************************************************************)
(* services/geminiService.ts: the request orchestrator.  Each function is  *)
(* given the response its one service call gets.                           *)
(***************************************************************************)
\* sendMessageToGemini: the reply text, or the rethrown failure.
sendMessageToGemini(history, newMessage, response) ==
    IF response.status = "rejected" THEN Rejected("ServiceError")
    ELSE Resolved(TextOr(response, <<"Sorry, I couldn't generate a response.">>))

\* The body shared by translateText and translateImage after the call:
\* JSON.parse(response.text || "{}") and the result built from its fields.
TranslationOf(original, response) ==
    IF response.status = "rejected" THEN Rejected("ServiceError")
    ELSE LET json == JSONparse(TextOr(response, <<"{", "}">>))
         IN  IF json.kind = "throw" THEN Rejected("SyntaxError")
             ELSE IF json.kind = "null" THEN Rejected("TypeError")
             ELSE Resolved([original |-> original,
                            translated |-> Prop(json, "translated"),
                            pronunciation |-> Prop(json, "pronunciation"),
                            grammarNotes |-> Prop(json, "grammarNotes")])

translateText(text, fromLang, response) == TranslationOf(text, response)

translateImage(base64Image, fromLang, response) ==
    TranslationOf(<<"Image Text">>, response)

\* The fields the response schemas of getDailyWord and of
\* getVocabularyByCategory declare as required.
RequiredOfDailyWord == {"word", "tamilMeaning", "exampleSentence", "exampleTamil"}

RequiredOfVocabularyItem ==
    {"word", "definition", "tamilMeaning", "exampleSentence", "exampleTamil"}

\* The hardcoded word of the day (the Tamil strings are transliterated).
FallbackWord ==
    [kind |-> "object",
     obj |-> [word |-> "Welcome",
              tamilMeaning |-> "Nalvaravu",
              exampleSentence |-> "Welcome to the English class.",
              exampleTamil |-> "Aangila vaguppirku nalvaravu."]]

\* A mutant of getDailyWord: the catch block rethrows instead of falling back.
getDailyWordRethrows(response) ==
    IF response.status = "rejected" THEN Rejected("ServiceError")
    ELSE IF ~(response.hasText /\ response.text # <<>>) THEN Rejected("Error")
    ELSE LET json == JSONparse(response.text)
         IN  IF json.kind = "throw" THEN Rejected("SyntaxError")
             ELSE Resolved(json)

getDailyWord(response) ==
    IF response.status = "rejected" THEN Resolved(FallbackWord)
    ELSE IF ~(response.hasText /\ response.text # <<>>) THEN Resolved(FallbackWord)
    ELSE LET json == JSONparse(response.text)
         IN  IF json.kind = "throw" THEN Resolved(FallbackWord)
             ELSE Resolved(json)

\* A mutant of getVocabularyByCategory: the batch is cut to its first item.
getVocabularyTruncates(category, response) ==
    IF response.status = "rejected" THEN Resolved([kind |-> "array", arr |-> <<>>])
    ELSE LET json == JSONparse(TextOr(response, <<"[", "]">>))
         IN  IF json.kind = "throw" THEN Resolved([kind |-> "array", arr |-> <<>>])
             ELSE IF json.kind = "array" /\ Len(json.arr) > 1
             THEN Resolved([kind |-> "array", arr |-> SubSeq(json.arr, 1, 1)])
             ELSE Resolved(json)

getVocabularyByCategory(category, response) ==
    IF response.status = "rejected" THEN Resolved([kind |-> "array", arr |-> <<>>])
    ELSE LET json == JSONparse(TextOr(response, <<"[", "]">>))
         IN  IF json.kind = "throw" THEN Resolved([kind |-> "array", arr |-> <<>>])
             ELSE Resolved(json)

(***************************************************************************)
(* speakText: the audio payload is a base64 string, here a sequence over   *)
(* the 64 digits 0..63, the padding character and a character outside the  *)
(* alphabet.                                                               *)
(***************************************************************************)
Pad == 64

BadChar == 65

\* The service's encoding of the PCM bytes it synthesized.
RECURSIVE Btoa(_)
Btoa(bytes) ==
    IF Len(bytes) = 0 THEN <<>>
    ELSE IF Len(bytes) = 1
    THEN <<bytes[1] \div 4, (bytes[1] % 4) * 16, Pad, Pad>>
    ELSE IF Len(bytes) = 2
    THEN <<bytes[1] \div 4, (bytes[1] % 4) * 16 + bytes[2] \div 16,
           (bytes[2] % 16) * 4, Pad>>
    ELSE <<bytes[1] \div 4, (bytes[1] % 4) * 16 + bytes[2] \div 16,
           (bytes[2] % 16) * 4 + bytes[3] \div 64, bytes[3] % 64>>
         \o Btoa(SubSeq(bytes, 4, Len(bytes)))

StripPad(s) ==
    IF Len(s) > 0 /\ Len(s) % 4 = 0 /\ s[Len(s)] = Pad
    THEN IF s[Len(s) - 1] = Pad THEN SubSeq(s, 1, Len(s) - 2)
         ELSE SubSeq(s, 1, Len(s) - 1)
    ELSE s

RECURSIVE DecodeSextets(_)
DecodeSextets(d) ==
    IF Len(d) < 2 THEN <<>>
    ELSE IF Len(d) = 2 THEN <<d[1] * 4 + d[2] \div 16>>
    ELSE IF Len(d) = 3
    THEN <<d[1] * 4 + d[2] \div 16, (d[2] % 16) * 16 + d[3] \div 4>>
    ELSE <<d[1] * 4 + d[2] \div 16, (d[2] % 16) * 16 + d[3] \div 4,
           (d[3] % 4) * 64 + d[4]>>
         \o DecodeSextets(SubSeq(d, 5, Len(d)))

\* atob followed by the charCodeAt loop: the bytes, or a thrown
\* InvalidCharacterError.
Atob(s) ==
    LET d == StripPad(s)
    IN  IF Len(d) % 4 = 1 \/ \E i \in 1..Len(d) : d[i] \notin 0..63
        THEN [ok |-> FALSE, bytes |-> <<>>]
        ELSE [ok |-> TRUE, bytes |-> DecodeSextets(d)]

\* A mutant of Int16At: the sample is read as unsigned.
Int16AtUnsigned(bytes, i) == bytes[2 * i - 1] + 256 * bytes[2 * i]

\* One element of new Int16Array(bytes.buffer): two bytes, low byte first,
\* read as a two's complement 16-bit integer.
Int16At(bytes, i) ==
    LET u == bytes[2 * i - 1] + 256 * bytes[2 * i]
    IN  IF u >= 32768 THEN u - 65536 ELSE u

\* A mutant of Sample: the divisor is 16384.
SampleAt14Bits(int16) == [num |-> int16, den |-> 16384]

\* A sample of the channel data: dataInt16[i] / 32768.0, exact in float32.
Sample(int16) == [num |-> int16, den |-> 32768]

\* A mutant of DecodePCM: the incomplete final byte is padded with a zero
\* high byte and decoded as one more sample.
DecodePCMPadded(bytes) ==
    LET padded == IF Len(bytes) % 2 # 0 THEN Append(bytes, 0) ELSE bytes
        frameCount == Len(padded) \div 2
    IN  IF frameCount = 0 THEN Rejected("NotSupportedError")
        ELSE Resolved([numberOfChannels |-> 1,
                       sampleRate |-> 24000,
                       channelData |->
                           [i \in 1..frameCount |-> Sample(Int16At(padded, i))]])

\* The PCM decode of speakText: new Int16Array(bytes.buffer) throws a
\* RangeError on an odd byte length and createBuffer a NotSupportedError on
\* a frame count of 0.
DecodePCM(bytes) ==
    IF Len(bytes) % 2 # 0 THEN Rejected("RangeError")
    ELSE LET frameCount == Len(bytes) \div 2
         IN  IF frameCount = 0 THEN Rejected("NotSupportedError")
             ELSE Resolved([numberOfChannels |-> 1,
                            sampleRate |-> 24000,
                            channelData |->
                                [i \in 1..frameCount |-> Sample(Int16At(bytes, i))]])

\* An audio response: the call rejects, or the first part of the first
\* candidate carries inline data or none.
AudioRejects == [status |-> "rejected", hasData |-> FALSE, data |-> <<>>]

NoAudio == [status |-> "ok", hasData |-> FALSE, data |-> <<>>]

AudioResponse(d) == [status |-> "ok", hasData |-> TRUE, data |-> d]

\* A mutant of speakText: the missing payload is decoded as an empty string.
speakTextNoCheck(text, response) ==
    IF response.status = "rejected" THEN Rejected("ServiceError")
    ELSE LET bin == Atob(response.data)
         IN  IF ~bin.ok THEN Rejected("InvalidCharacterError")
             ELSE IF bin.bytes = <<>>
             THEN Resolved([numberOfChannels |-> 1, sampleRate |-> 24000,
                            channelData |-> <<>>])
             ELSE DecodePCM(bin.bytes)

speakText(text, response) ==
    IF response.status = "rejected" THEN Rejected("ServiceError")
    ELSE IF ~(response.hasData /\ response.data # <<>>)
    THEN Rejected("No audio data received")
    ELSE LET bin == Atob(response.data)
         IN  IF ~bin.ok THEN Rejected("InvalidCharacterError")
             ELSE DecodePCM(bin.bytes)

(***************************************************************************)
(* The inputs and responses the service functions are exercised on.        *)
(***************************************************************************)
SeqsUpTo(S, n) == UNION {[1..k -> S] : k \in 0..n}

ServiceTexts == {<<"a">>, <<"b">>}

Langs == {"en", "ta"}

\* Bodies of a structured response: empty, malformed, null, and objects
\* with and without the required field.
ObjectTexts ==
    {<<>>, <<"{">>, <<"null">>, <<"{", "}">>, <<"[", "]">>,
     <<"{", "translated", "}">>,
     <<"{", "pronunciation", "grammarNotes", "}">>,
     <<"{", "translated", "pronunciation", "grammarNotes", "}">>,
     <<"{", "word", "}">>,
     <<"{", "word", "tamilMeaning", "exampleSentence", "exampleTamil", "}">>}

ArrayTexts ==
    {<<"[">> \o items \o <<"]">> : items \in SeqsUpTo(ItemTokens, MaxBatch)}

TextResponses(texts) == {CallRejects, NoText} \cup {TextResponse(t) : t \in texts}

ByteVals == {0, 1, 127, 128, 255}

ByteSeqs == SeqsUpTo(ByteVals, MaxBytes)

VARIABLES
    svcOp,        \* the service function under call
    svcArg,       \* its text, image or category argument
    svcLang,      \* its fromLang argument
    svcBytes,     \* the PCM bytes the service synthesized (speakText)
    svcResponse,  \* the response the one service call gets
    svcResult     \* how the returned promise settled, or pending

svcVars == <<svcOp, svcArg, svcLang, svcBytes, svcResponse, svcResult>>

Pending == [status |-> "pending"]

SvcIdle ==
    /\ svcOp = "none"
    /\ svcArg = <<>>
    /\ svcLang = "en"
    /\ svcBytes = <<>>
    /\ svcResponse = CallRejects
    /\ svcResult = Pending

SvcInit ==
    /\ svcResult = Pending
    /\ svcArg \in ServiceTexts
    /\ \/ /\ svcOp \in {"translateText", "translateImage"}
          /\ svcLang \in Langs
          /\ svcBytes = <<>>
          /\ svcResponse \in TextResponses(ObjectTexts)
       \/ /\ svcOp = "getDailyWord"
          /\ svcLang = "en"
          /\ svcBytes = <<>>
          /\ svcResponse \in TextResponses(ObjectTexts)
       \/ /\ svcOp = "getVocabularyByCategory"
          /\ svcLang = "en"
          /\ svcBytes = <<>>
          /\ svcResponse \in TextResponses(ObjectTexts \cup ArrayTexts \cup {<<"[">>})
       \/ /\ svcOp = "sendMessageToGemini"
          /\ svcLang = "en"
          /\ svcBytes = <<>>
          /\ svcResponse \in TextResponses({<<>>, <<"r">>})
       \/ /\ svcOp = "speakText"
          /\ svcLang = "en"
          /\ svcBytes \in ByteSeqs
          /\ svcResponse \in {AudioRejects, NoAudio, AudioResponse(Btoa(svcBytes)),
                              AudioResponse(Btoa(svcBytes) \o <<BadChar>>)}

(***************************************************************************)
(* The views.  App.tsx renders exactly one of LearnTab, ChatTab and        *)
(* TranslateTab; a view that is navigated away from is unmounted and its   *)
(* state discarded, and a view navigated to is mounted in its initial      *)
(* state.  The variables of an unmounted view hold its initial state.      *)
(***************************************************************************)
VARIABLES
    activeTab,           \* App: the tab rendered
    cameraRequestCount,  \* App: camera requests made from the Learn view
    input,               \* ChatTab: the input field
    messages,            \* ChatTab: the thread
    chatLoading,         \* ChatTab: loading
    chatPending,         \* ChatTab: the converse call in flight
    text,                \* TranslateTab: the text area
    result,              \* TranslateTab: the result panel, with its request
    loading,             \* TranslateTab: loading
    direction,           \* TranslateTab: 'en-ta' or 'ta-en'
    showCamera,          \* TranslateTab: the camera modal is rendered
    srcObject,           \* TranslateTab: videoRef.current.srcObject
    requests,            \* translation calls in flight
    nextReq,             \* the number the next translation call gets
    streams,             \* the camera streams requested and not released
    notice,              \* the alert() on screen, or none
    view,                \* LearnTab: 'dashboard' or 'lesson'
    activeCategory,      \* LearnTab: the category of the lesson, or null
    wordData,            \* LearnTab: the word of the day, or null
    loadingWord,         \* LearnTab: loadingWord
    lessonWords,         \* LearnTab: the words of the lesson
    loadingLesson,       \* LearnTab: loadingLesson
    wordCalls,           \* getDailyWord calls in flight
    lessonCalls,         \* getVocabularyByCategory calls in flight, by category
    speech,              \* speakText calls in flight, by the view that called
    chatOrphans          \* converse calls in flight of chat views since unmounted

appVars == <<activeTab, cameraRequestCount>>

chatVars == <<input, messages, chatLoading, chatPending>>

translateVars ==
    <<text, result, loading, direction, showCamera, srcObject, requests, nextReq>>

learnVars ==
    <<view, activeCategory, wordData, loadingWord, lessonWords, loadingLesson,
      wordCalls, lessonCalls>>

\* Calls in flight that the state of no mounted view tracks.
callVars == <<speech, chatOrphans>>

uiVars == <<appVars, chatVars, translateVars, streams, notice, learnVars, callVars>>

vars == <<svcVars, uiVars>>

SvcCall(op, settled) ==
    /\ svcOp = op
    /\ svcResult = Pending
    /\ svcResult' = settled
    /\ UNCHANGED <<svcOp, svcArg, svcLang, svcBytes, svcResponse>>
    /\ UNCHANGED uiVars

CallTranslateText ==
    SvcCall("translateText", translateText(svcArg, svcLang, svcResponse))

CallTranslateImage ==
    SvcCall("translateImage", translateImage(svcArg, svcLang, svcResponse))

CallGetDailyWord == SvcCall("getDailyWord", getDailyWord(svcResponse))

CallGetVocabularyByCategory ==
    SvcCall("getVocabularyByCategory", getVocabularyByCategory(svcArg, svcResponse))

CallSendMessage ==
    SvcCall("sendMessageToGemini", sendMessageToGemini(<<>>, svcArg, svcResponse))

CallSpeakText == SvcCall("speakText", speakText(svcArg, svcResponse))

SvcNext ==
    \/ CallTranslateText
    \/ CallTranslateImage
    \/ CallGetDailyWord
    \/ CallGetVocabularyByCategory
    \/ CallSendMessage
    \/ CallSpeakText

SvcDone(op) == svcOp = op /\ svcResult.status # "pending"

(***************************************************************************)
(* Navigation.                                                             *)
(***************************************************************************)
Tabs == {"LEARN", "CHAT", "TRANSLATE"}

\* alert() blocks the page until it is dismissed.
NoAlert == notice = "none"

(***************************************************************************)
(* components/ChatTab.tsx                                                  *)
(***************************************************************************)
Whitespace == {" ", "\n"}

RECURSIVE TrimStart(_)
TrimStart(s) ==
    IF s # <<>> /\ Head(s) \in Whitespace THEN TrimStart(Tail(s)) ELSE s

RECURSIVE TrimEnd(_)
TrimEnd(s) ==
    IF s # <<>> /\ s[Len(s)] \in Whitespace
    THEN TrimEnd(SubSeq(s, 1, Len(s) - 1)) ELSE s

\* A mutant of Trim: only the empty string counts as blank.
TrimNothing(s) == s

\* String.prototype.trim
Trim(s) == TrimEnd(TrimStart(s))

ChatInputs ==
    {<<>>, <<" ">>, <<"\n", " ">>, <<"h">>, <<" ", "h">>, <<"h", " ">>}

ChatResponses == TextResponses({<<>>, <<"r">>})

WelcomeMessage ==
    [role |-> "model",
     text |-> <<"Vanakkam! I'm your English tutor. We can speak in Tamil or English. How can I help you today?">>,
     isError |-> FALSE]

ApologyText == <<"Sorry, I had trouble connecting. Please try again.">>

NoChatCall == [active |-> FALSE, history |-> <<>>, text |-> <<>>]

ChatMounted == activeTab = "CHAT"

ChatInitial ==
    /\ input = <<>>
    /\ messages = <<WelcomeMessage>>
    /\ chatLoading = FALSE
    /\ chatPending = NoChatCall

\* onChange of the input field, which is disabled while loading.
SetInput(s) ==
    /\ ChatMounted
    /\ NoAlert
    /\ ~chatLoading
    /\ input' = s
    /\ UNCHANGED <<svcVars, learnVars, callVars, appVars, messages, chatLoading, chatPending,
                   translateVars, streams, notice>>

\* A mutant of handleSend: the catch block appends nothing.
handleSendFailed(prev) == prev

\* The catch block of handleSend: the errored fallback turn.
handleSendCatch(prev) ==
    Append(prev, [role |-> "model", text |-> ApologyText, isError |-> TRUE])

\* handleSend up to its await: the Enter key or the send button.
handleSend ==
    /\ ChatMounted
    /\ NoAlert
    /\ IF Trim(input) = <<>> \/ chatLoading
       THEN UNCHANGED <<chatVars>>
       ELSE /\ Len(messages) < 1 + 2 * MaxSends
            /\ messages' = Append(messages,
                                  [role |-> "user", text |-> input, isError |-> FALSE])
            /\ input' = <<>>
            /\ chatLoading' = TRUE
            /\ chatPending' = [active |-> TRUE, history |-> messages, text |-> input]
    /\ UNCHANGED <<svcVars, learnVars, callVars, appVars, translateVars, streams, notice>>

\* handleSend after its await, on the response the call gets: the reply,
\* or the catch block, then finally.
handleSendResumes(response) ==
    /\ ChatMounted
    /\ NoAlert
    /\ chatPending.active
    /\ LET out == sendMessageToGemini(chatPending.history, chatPending.text, response)
       IN  messages' = IF out.status = "resolved"
                       THEN Append(messages, [role |-> "model", text |-> out.value,
                                              isError |-> FALSE])
                       ELSE handleSendCatch(messages)
    /\ chatLoading' = FALSE
    /\ chatPending' = NoChatCall
    /\ UNCHANGED <<svcVars, learnVars, callVars, appVars, input, translateVars, streams, notice>>

handleSendSettles == \E response \in ChatResponses : handleSendResumes(response)

(***************************************************************************)
(* components/TranslateTab.tsx                                             *)
(***************************************************************************)
TranslateInputs == {<<>>, <<" ">>, <<"a">>}

TranslateResponses ==
    {CallRejects, TextResponse(<<"{", "}">>), TextResponse(<<"{", "translated", "}">>)}

NoResult == [req |-> 0]

TranslateMounted == activeTab = "TRANSLATE"

\* The camera streams requested and not yet released, counted by state:
\* pending (getUserMedia not yet settled), timer (acquired, inside the
\* 100 ms delay), the same two for calls of an instance since unmounted
\* (orphanPending, orphanTimer), and lost (acquired, its tracks never
\* stopped, referenced by nothing).  The stream that is the srcObject of the
\* video element is held by srcObject.
StreamStates == {"pending", "timer", "orphanPending", "orphanTimer", "lost"}

NoStream == "null"

AStream == "MediaStream"

More(strs, k) == [strs EXCEPT ![k] = @ + 1]

Less(strs, k) == [strs EXCEPT ![k] = @ - 1]

Count(strs, ks) ==
    LET RECURSIVE Sum(_)
        Sum(S) == IF S = {} THEN 0
                  ELSE LET k == CHOOSE x \in S : TRUE IN strs[k] + Sum(S \ {k})
    IN  Sum(ks)

Attached(src) == IF src = NoStream THEN 0 ELSE 1

\* Streams requested and neither denied nor stopped.
Outstanding(strs, src) == Count(strs, StreamStates) + Attached(src)

\* Acquired streams whose tracks are running.
ActiveStreams(strs, src) ==
    Count(strs, {"timer", "orphanTimer", "lost"}) + Attached(src)

\* A mutant of stopCamera: the tracks are stopped and srcObject is kept.
stopCameraKeepsSrc(video, src) == src

\* stopCamera, where video is whether videoRef.current is set: the new
\* srcObject.  The tracks of the old one are stopped.
stopCamera(video, src) == IF video /\ src # NoStream THEN NoStream ELSE src

\* The video element leaves the document: a stream that is still its
\* srcObject keeps its tracks running and is referenced by nothing.
RemoveVideo(strs, src) == IF src # NoStream THEN More(strs, "lost") ELSE strs

\* The view is unmounted: the state setters and the videoRef of its
\* instance reach nothing that is rendered.
Orphan(strs) ==
    [strs EXCEPT !["orphanPending"] = @ + strs["pending"],
                 !["orphanTimer"] = @ + strs["timer"],
                 !["pending"] = 0,
                 !["timer"] = 0]

TranslateInitial ==
    /\ text = <<>>
    /\ result = NoResult
    /\ loading = FALSE
    /\ direction = "en-ta"
    /\ showCamera = FALSE
    /\ srcObject = NoStream

fromLang == IF direction = "en-ta" THEN "en" ELSE "ta"

\* onChange of the text area.
SetText(s) ==
    /\ TranslateMounted
    /\ NoAlert
    /\ text' = s
    /\ UNCHANGED <<svcVars, learnVars, callVars, appVars, chatVars, result, loading, direction,
                   showCamera, srcObject, requests, nextReq, streams, notice>>

\* The Translate button is disabled while loading or while the text is
\* blank.
TranslateDisabled == loading \/ Trim(text) = <<>>

\* handleTranslate up to its await: the Translate button.
handleTranslate ==
    /\ TranslateMounted
    /\ NoAlert
    /\ IF TranslateDisabled
       THEN UNCHANGED <<loading, result, requests, nextReq>>
       ELSE /\ nextReq <= MaxRequests
            /\ loading' = TRUE
            /\ result' = NoResult
            /\ requests' = requests \cup
                 {[id |-> nextReq, kind |-> "text", arg |-> text, fromLang |-> fromLang]}
            /\ nextReq' = nextReq + 1
    /\ UNCHANGED <<svcVars, learnVars, callVars, appVars, chatVars, text, direction, showCamera,
                   srcObject, streams, notice>>

toggleDirection ==
    /\ TranslateMounted
    /\ NoAlert
    /\ direction' = IF direction = "en-ta" THEN "ta-en" ELSE "en-ta"
    /\ text' = <<>>
    /\ result' = NoResult
    /\ UNCHANGED <<svcVars, learnVars, callVars, appVars, chatVars, loading, showCamera, srcObject,
                   requests, nextReq, streams, notice>>

\* The Lens button: startCamera up to its await.
startCamera ==
    /\ TranslateMounted
    /\ NoAlert
    /\ Outstanding(streams, srcObject) < MaxStreams
    /\ showCamera' = TRUE
    /\ streams' = More(streams, "pending")
    /\ UNCHANGED <<svcVars, learnVars, callVars, appVars, chatVars, text, result, loading, direction,
                   srcObject, requests, nextReq, notice>>

\* getUserMedia resolves: the 100 ms timer is set.
getUserMediaResolves(k) ==
    /\ NoAlert
    /\ k \in {"pending", "orphanPending"}
    /\ streams[k] > 0
    /\ streams' = More(Less(streams, k), IF k = "pending" THEN "timer" ELSE "orphanTimer")
    /\ UNCHANGED <<svcVars, learnVars, callVars, appVars, chatVars, translateVars, notice>>

\* A mutant of getUserMediaRejects: the catch block only logs the error.
getUserMediaRejectsSilently(k) ==
    /\ NoAlert
    /\ k \in {"pending", "orphanPending"}
    /\ streams[k] > 0
    /\ streams' = Less(streams, k)
    /\ UNCHANGED <<svcVars, learnVars, callVars, appVars, chatVars, translateVars,
                   notice>>

\* getUserMedia rejects: the catch block of startCamera.  setShowCamera
\* reaches the state of the instance that called, if it is still mounted,
\* and the video element is removed with the modal.
getUserMediaRejects(k) ==
    /\ NoAlert
    /\ k \in {"pending", "orphanPending"}
    /\ streams[k] > 0
    /\ notice' = "Could not access camera. Please check permissions."
    /\ IF k = "pending"
       THEN /\ showCamera' = FALSE
            /\ srcObject' = NoStream
            /\ streams' = RemoveVideo(Less(streams, k), srcObject)
       ELSE /\ streams' = Less(streams, k)
            /\ UNCHANGED <<showCamera, srcObject>>
    /\ UNCHANGED <<svcVars, learnVars, callVars, appVars, chatVars, text, result, loading, direction,
                   requests, nextReq>>

\* The 100 ms timer fires: the stream becomes the srcObject of the video
\* element, if the videoRef of the calling instance holds one.  A stream
\* that was the srcObject before is replaced without being stopped.
timerFires(k) ==
    /\ NoAlert
    /\ k \in {"timer", "orphanTimer"}
    /\ streams[k] > 0
    /\ IF k = "timer" /\ showCamera
       THEN /\ streams' = RemoveVideo(Less(streams, k), srcObject)
            /\ srcObject' = AStream
       ELSE /\ streams' = More(Less(streams, k), "lost")
            /\ UNCHANGED srcObject
    /\ UNCHANGED <<svcVars, learnVars, callVars, appVars, chatVars, text, result, loading, direction,
                   showCamera, requests, nextReq, notice>>

\* The close button of the camera modal: stopCamera(); setShowCamera(false).
closeCamera ==
    /\ TranslateMounted
    /\ NoAlert
    /\ showCamera
    /\ LET src == stopCamera(showCamera, srcObject)
       IN  /\ streams' = RemoveVideo(streams, src)
           /\ srcObject' = NoStream
    /\ showCamera' = FALSE
    /\ UNCHANGED <<svcVars, learnVars, callVars, appVars, chatVars, text, result, loading, direction,
                   requests, nextReq, notice>>

\* The shutter button of the camera modal: captureAndTranslate up to its
\* await.
captureAndTranslate ==
    /\ TranslateMounted
    /\ NoAlert
    /\ showCamera
    /\ nextReq <= MaxRequests
    /\ LET src == stopCamera(showCamera, srcObject)
       IN  /\ streams' = RemoveVideo(streams, src)
           /\ srcObject' = NoStream
    /\ showCamera' = FALSE
    /\ loading' = TRUE
    /\ result' = NoResult
    /\ requests' = requests \cup
         {[id |-> nextReq, kind |-> "image", arg |-> <<"jpeg">>, fromLang |-> fromLang]}
    /\ nextReq' = nextReq + 1
    /\ UNCHANGED <<svcVars, learnVars, callVars, appVars, chatVars, text, direction, notice>>

\* A request of an instance since unmounted: its state setters reach
\* nothing, and only its alert can be seen.
OrphanRequest(r) == [id |-> 0, kind |-> r.kind, arg |-> <<>>, fromLang |-> "en"]

\* handleTranslate and captureAndTranslate after their await, on the
\* response the call gets.
translationResumes(r, response) ==
    /\ NoAlert
    /\ r \in requests
    /\ requests' = requests \ {r}
    /\ LET out == IF r.kind = "text"
                  THEN translateText(r.arg, r.fromLang, response)
                  ELSE translateImage(r.arg, r.fromLang, response)
       IN  IF out.status = "resolved"
           THEN /\ result' = IF r.id # 0 THEN [req |-> r.id, val |-> out.value]
                             ELSE result
                /\ UNCHANGED notice
           ELSE /\ notice' = IF r.kind = "image" THEN "Could not translate image."
                             ELSE notice
                /\ UNCHANGED result
    /\ loading' = IF r.id # 0 THEN FALSE ELSE loading
    /\ UNCHANGED <<svcVars, learnVars, callVars, appVars, chatVars, text, direction, showCamera,
                   srcObject, nextReq, streams>>

translationSettles(r) ==
    \E response \in TranslateResponses : translationResumes(r, response)

\* The user dismisses the alert.
dismissAlert ==
    /\ ~NoAlert
    /\ notice' = "none"
    /\ UNCHANGED <<svcVars, learnVars, callVars, appVars, chatVars, translateVars, streams>>

(***************************************************************************)
(* components/LearnTab.tsx                                                 *)
(***************************************************************************)
\* Two of the six categories of the lesson browser.
CATEGORIES == {"Greetings", "Travel"}

NoCategory == "null"

NoWord == [kind |-> "null"]

LearnMounted == activeTab = "LEARN"

\* The responses a getDailyWord call gets.
WordResponses ==
    {CallRejects,
     TextResponse(<<"{", "word", "tamilMeaning", "exampleSentence", "exampleTamil", "}">>)}

\* The body the service answers a vocabulary request for a category with.
BatchText(category) ==
    IF category = "Greetings" THEN <<"[", "i1", "]">> ELSE <<"[", "i2", "]">>

\* The responses a getVocabularyByCategory call for a category gets.
LessonResponses(category) == {CallRejects, TextResponse(BatchText(category))}

\* The state of a LearnTab just mounted: its mount effect has called
\* fetchWord.
LearnInitial ==
    /\ view = "dashboard"
    /\ activeCategory = NoCategory
    /\ wordData = NoWord
    /\ loadingWord = TRUE
    /\ lessonWords = <<>>
    /\ loadingLesson = FALSE
    /\ wordCalls = 1
    /\ lessonCalls = [c \in CATEGORIES |-> 0]

\* fetchWord up to its await: the refresh button of the word card, which is
\* disabled while loadingWord.
fetchWord ==
    /\ LearnMounted
    /\ NoAlert
    /\ view = "dashboard"
    /\ ~loadingWord
    /\ loadingWord' = TRUE
    /\ wordCalls' = wordCalls + 1
    /\ UNCHANGED <<svcVars, appVars, chatVars, translateVars, streams, notice,
                   view, activeCategory, wordData, lessonWords, loadingLesson,
                   lessonCalls, callVars>>

\* A mutant of fetchWordResumes: a failed call throws past fetchWord, which
\* has no finally, and loadingWord stays as it was.
fetchWordResumesThrowing(response) ==
    /\ LearnMounted
    /\ NoAlert
    /\ wordCalls > 0
    /\ wordCalls' = wordCalls - 1
    /\ IF response.status = "rejected"
       THEN UNCHANGED <<wordData, loadingWord>>
       ELSE /\ wordData' = getDailyWord(response).value
            /\ loadingWord' = FALSE
    /\ UNCHANGED <<svcVars, appVars, chatVars, translateVars, streams, notice,
                   view, activeCategory, lessonWords, loadingLesson,
                   lessonCalls, callVars>>

\* fetchWord after its await, on the response the call gets.
fetchWordResumes(response) ==
    /\ LearnMounted
    /\ NoAlert
    /\ wordCalls > 0
    /\ wordCalls' = wordCalls - 1
    /\ wordData' = getDailyWord(response).value
    /\ loadingWord' = FALSE
    /\ UNCHANGED <<svcVars, appVars, chatVars, translateVars, streams, notice,
                   view, activeCategory, lessonWords, loadingLesson,
                   lessonCalls, callVars>>

fetchWordSettles == \E response \in WordResponses : fetchWordResumes(response)

\* handleCategoryClick up to its await: a category card of the dashboard, or
\* Try Again of a lesson that came back empty.
handleCategoryClick(category) ==
    /\ LearnMounted
    /\ NoAlert
    /\ \/ view = "dashboard"
       \/ /\ view = "lesson"
          /\ ~loadingLesson
          /\ lessonWords = <<>>
          /\ activeCategory = category
    /\ lessonCalls["Greetings"] + lessonCalls["Travel"] < MaxLessonCalls
    /\ activeCategory' = category
    /\ view' = "lesson"
    /\ lessonWords' = <<>>
    /\ loadingLesson' = TRUE
    /\ lessonCalls' = [lessonCalls EXCEPT ![category] = @ + 1]
    /\ UNCHANGED <<svcVars, appVars, chatVars, translateVars, streams, notice,
                   wordData, loadingWord, wordCalls, callVars>>

\* handleCategoryClick after its await, on the response the call gets.
lessonResumes(category, response) ==
    /\ LearnMounted
    /\ NoAlert
    /\ lessonCalls[category] > 0
    /\ lessonCalls' = [lessonCalls EXCEPT ![category] = @ - 1]
    /\ lessonWords' = getVocabularyByCategory(category, response).value.arr
    /\ loadingLesson' = FALSE
    /\ UNCHANGED <<svcVars, appVars, chatVars, translateVars, streams, notice,
                   view, activeCategory, wordData, loadingWord, wordCalls, callVars>>

lessonSettles(category) ==
    \E response \in LessonResponses(category) : lessonResumes(category, response)

\* The back button of the lesson.
handleBackToDash ==
    /\ LearnMounted
    /\ NoAlert
    /\ view = "lesson"
    /\ view' = "dashboard"
    /\ activeCategory' = NoCategory
    /\ UNCHANGED <<svcVars, appVars, chatVars, translateVars, streams, notice,
                   wordData, loadingWord, lessonWords, loadingLesson, wordCalls,
                   lessonCalls, callVars>>

(***************************************************************************)
(* handleSpeak of the three views.                                         *)
(***************************************************************************)
\* The responses a speakText call gets.
SpeechResponses == {AudioRejects, NoAudio, AudioResponse(Btoa(<<1, 0>>))}

\* A speaker button is rendered: on a model turn of the chat that is not
\* errored, on the result of the translation view, on the word of the day
\* and on the words of a lesson.
SpeakerShown(tab) ==
    CASE tab = "CHAT" ->
           \E i \in 1..Len(messages) :
             messages[i].role = "model" /\ ~messages[i].isError
      [] tab = "TRANSLATE" -> result.req # 0
      [] tab = "LEARN" ->
           \/ view = "dashboard" /\ ~loadingWord /\ wordData.kind # "null"
           \/ view = "lesson" /\ ~loadingLesson /\ lessonWords # <<>>

\* The catch block of handleSpeak in the view of tab: the alert it raises,
\* or the notice as it was.
handleSpeakCatch(tab, shown) ==
    CASE tab = "CHAT" -> "Could not play audio."
      [] tab = "TRANSLATE" -> "Audio generation failed"
      [] tab = "LEARN" -> shown

\* handleSpeak up to its await.
handleSpeak(tab) ==
    /\ activeTab = tab
    /\ NoAlert
    /\ SpeakerShown(tab)
    /\ speech["CHAT"] + speech["TRANSLATE"] + speech["LEARN"] < MaxSpeech
    /\ speech' = [speech EXCEPT ![tab] = @ + 1]
    /\ UNCHANGED <<svcVars, appVars, chatVars, translateVars, streams, notice,
                   learnVars, chatOrphans>>

\* handleSpeak after its await, on the response the call gets; its closure
\* runs whether or not the view is still mounted.
speechResumes(tab, response) ==
    /\ NoAlert
    /\ speech[tab] > 0
    /\ speech' = [speech EXCEPT ![tab] = @ - 1]
    /\ notice' = IF speakText(<<>>, response).status = "rejected"
                 THEN handleSpeakCatch(tab, notice)
                 ELSE notice
    /\ UNCHANGED <<svcVars, appVars, chatVars, translateVars, streams,
                   learnVars, chatOrphans>>

speechSettles(tab) == \E response \in SpeechResponses : speechResumes(tab, response)

\* handleSend after its await in a chat view since unmounted: its state
\* setters reach nothing.
orphanSendSettles ==
    /\ NoAlert
    /\ chatOrphans > 0
    /\ chatOrphans' = chatOrphans - 1
    /\ UNCHANGED <<svcVars, appVars, chatVars, translateVars, streams, notice,
                   learnVars, speech>>

(***************************************************************************)
(* App.tsx: navigation.                                                    *)
(***************************************************************************)
\* The tab changes to t with count camera requests made: the view rendered
\* is unmounted and the view of t mounted.  Unmounting TranslateTab runs the
\* cleanup effect, stopCamera(), and removes the video element; whether
\* videoRef.current is still set when that cleanup runs depends on the React
\* version of the build (refAttached).  Mounting TranslateTab runs the
\* cameraRequestCount effect, mounting LearnTab its fetchWord effect.  The
\* calls of the unmounted view stay in flight; those of LearnTab, whose
\* handlers then change nothing that is rendered, are no longer followed.
Navigate(t, count) ==
    /\ NoAlert
    /\ activeTab' = t
    /\ chatPending.active => chatOrphans < MaxSends
    /\ chatOrphans' = IF chatPending.active THEN chatOrphans + 1 ELSE chatOrphans
    /\ view' = "dashboard"
    /\ activeCategory' = NoCategory
    /\ wordData' = NoWord
    /\ loadingWord' = TRUE
    /\ lessonWords' = <<>>
    /\ loadingLesson' = FALSE
    /\ wordCalls' = 1
    /\ lessonCalls' = [c \in CATEGORIES |-> 0]
    /\ input' = <<>>
    /\ messages' = <<WelcomeMessage>>
    /\ chatLoading' = FALSE
    /\ chatPending' = NoChatCall
    /\ text' = <<>>
    /\ result' = NoResult
    /\ loading' = FALSE
    /\ direction' = "en-ta"
    /\ srcObject' = NoStream
    /\ requests' = {OrphanRequest(r) : r \in requests}
    /\ nextReq' = 1
    /\ \E refAttached \in BOOLEAN :
         LET left == IF activeTab = "TRANSLATE"
                     THEN Orphan(RemoveVideo(streams,
                                             stopCamera(refAttached /\ showCamera,
                                                        srcObject)))
                     ELSE streams
         IN  IF t = "TRANSLATE" /\ count > 0
             THEN /\ Outstanding(left, NoStream) < MaxStreams
                  /\ streams' = More(left, "pending")
                  /\ showCamera' = TRUE
             ELSE /\ streams' = left
                  /\ showCamera' = FALSE
    /\ UNCHANGED <<svcVars, speech, notice>>

\* A button of the bottom navigation bar.
setActiveTab(t) ==
    /\ t # activeTab
    /\ Navigate(t, cameraRequestCount)
    /\ UNCHANGED cameraRequestCount

\* The camera button of the Learn view.
handleStartCamera ==
    /\ activeTab = "LEARN"
    /\ cameraRequestCount < MaxCameraRequests
    /\ Navigate("TRANSLATE", cameraRequestCount + 1)
    /\ cameraRequestCount' = cameraRequestCount + 1

(***************************************************************************)
(* Specifications.                                                         *)
(***************************************************************************)
UIInit ==
    /\ activeTab = "LEARN"
    /\ cameraRequestCount = 0
    /\ ChatInitial
    /\ TranslateInitial
    /\ requests = {}
    /\ nextReq = 1
    /\ streams = [k \in StreamStates |-> 0]
    /\ notice = "none"
    /\ LearnInitial
    /\ speech = [t \in Tabs |-> 0]
    /\ chatOrphans = 0

\* The state after App is constructed, with no service function under call.
Init == SvcIdle /\ UIInit

\* The service functions, each on every input and response of the bounds.
ServiceInit == SvcInit /\ UIInit

ServiceSpec == ServiceInit /\ [][SvcNext]_vars

ChatNext ==
    \/ \E t \in Tabs : setActiveTab(t)
    \/ \E s \in ChatInputs : SetInput(s)
    \/ handleSend
    \/ handleSendSettles
    \/ orphanSendSettles

\* The chat view under navigation.
ChatSpec == Init /\ [][ChatNext]_vars

TranslateNext ==
    \/ \E t \in Tabs : setActiveTab(t)
    \/ handleStartCamera
    \/ \E s \in TranslateInputs : SetText(s)
    \/ handleTranslate
    \/ toggleDirection
    \/ startCamera
    \/ \E k \in StreamStates : getUserMediaResolves(k)
    \/ \E k \in StreamStates : getUserMediaRejects(k)
    \/ \E k \in StreamStates : timerFires(k)
    \/ closeCamera
    \/ captureAndTranslate
    \/ \E r \in requests : translationSettles(r)
    \/ dismissAlert

\* The translation view and its camera under navigation.
TranslateSpec == Init /\ [][TranslateNext]_vars

CameraNext ==
    \/ \E t \in Tabs : setActiveTab(t)
    \/ handleStartCamera
    \/ startCamera
    \/ \E k \in StreamStates : getUserMediaResolves(k)
    \/ \E k \in StreamStates : getUserMediaRejects(k)
    \/ \E k \in StreamStates : timerFires(k)
    \/ closeCamera
    \/ captureAndTranslate
    \/ \E r \in requests : translationSettles(r)
    \/ dismissAlert

\* The camera capture of the translation view under navigation: the
\* translation view without its text area and direction switch.
CameraSpec == Init /\ [][CameraNext]_vars

LearnNext ==
    \/ \E t \in Tabs : setActiveTab(t)
    \/ fetchWord
    \/ fetchWordSettles
    \/ \E category \in CATEGORIES : handleCategoryClick(category)
    \/ \E category \in CATEGORIES : lessonSettles(category)
    \/ handleBackToDash
    \/ \E t \in Tabs : handleSpeak(t)
    \/ \E t \in Tabs : speechSettles(t)
    \/ dismissAlert

\* The lesson browser and the speaker buttons under navigation.
LearnSpec == Init /\ [][LearnNext]_vars

\* The steps that set or clear a loading flag, with the navigation and the
\* alerts that interleave with them.  One non-blank input per box is enough
\* to enable the send and translate buttons; the flags do not depend on what
\* was typed.
LoadingNext ==
    \/ \E t \in Tabs : setActiveTab(t)
    \/ SetInput(<<"h">>)
    \/ handleSend
    \/ handleSendSettles
    \/ orphanSendSettles
    \/ SetText(<<"a">>)
    \/ handleTranslate
    \/ startCamera
    \/ captureAndTranslate
    \/ \E r \in requests : translationSettles(r)
    \/ fetchWord
    \/ fetchWordSettles
    \/ \E category \in CATEGORIES : handleCategoryClick(category)
    \/ \E category \in CATEGORIES : lessonSettles(category)
    \/ handleBackToDash
    \/ dismissAlert

\* The four loading flags and the calls behind them, under navigation.
\* Every call in flight settles in the end and the user dismisses every
\* alert.  An alert blocks the page while it is shown, so a settled call's
\* continuation waits in the event loop's queue and runs once the alert is
\* closed: a continuation that can run again and again does run (SF).
LoadingSpec ==
    /\ Init
    /\ [][LoadingNext]_vars
    /\ SF_vars(handleSendSettles)
    /\ SF_vars(\E r \in requests : translationSettles(r))
    /\ SF_vars(fetchWordSettles)
    /\ SF_vars(\E category \in CATEGORIES : lessonSettles(category))
    /\ WF_vars(dismissAlert)

(***************************************************************************)
(* The claims.                                                             *)
(***************************************************************************)
\* C1: in the translation view, only the result of the most recently issued
\* translation request (text or image) is ever written to the visible
\* result, whatever the order in which the responses arrive.
C1_OnlyLatestResultShown == result.req # 0 => result.req = nextReq - 1

\* The response carries the field `translated`.
HasTranslated(response) ==
    /\ response.status = "ok"
    /\ response.hasText
    /\ \E i \in 1..Len(response.text) : response.text[i] = "translated"

\* C2: translateText and translateImage reject whenever the response does
\* not contain the field `translated`, an empty body included; they never
\* return a result whose `translated` is missing.
C2_MissingTranslatedRejects ==
    ((SvcDone("translateText") \/ SvcDone("translateImage"))
       /\ ~HasTranslated(svcResponse))
      => svcResult.status = "rejected"

\* The failures of a structured call: it rejects, its body is empty or
\* absent, or its body is malformed JSON.
ServiceFailure(response) ==
    \/ response.status = "rejected"
    \/ ~response.hasText
    \/ response.text = <<>>
    \/ response.text \in {<<"{">>, <<"[">>}

\* C3: getDailyWord never rejects, and on every service failure it resolves
\* to the fixed fallback entry: word "Welcome" with its fixed meaning and
\* example pair.
C3_DailyWordFallsBack ==
    SvcDone("getDailyWord") =>
      /\ svcResult.status = "resolved"
      /\ ServiceFailure(svcResponse) =>
           /\ svcResult.value.kind = "object"
           /\ svcResult.value.obj =
                [word |-> "Welcome",
                 tamilMeaning |-> "Nalvaravu",
                 exampleSentence |-> "Welcome to the English class.",
                 exampleTamil |-> "Aangila vaguppirku nalvaravu."]

\* C3's case: a malformed body was answered with the fallback entry.
C3_Witness ==
    /\ SvcDone("getDailyWord")
    /\ svcResponse = TextResponse(<<"{">>)
    /\ svcResult.status = "resolved"
    /\ svcResult.value.obj.word = "Welcome"

\* The body is an array of items.
IsBatch(response) ==
    /\ response.status = "ok"
    /\ response.hasText
    /\ Len(response.text) >= 2
    /\ response.text[1] = "["
    /\ response.text[Len(response.text)] = "]"

\* C4: getVocabularyByCategory never rejects; on every service failure it
\* resolves to the empty sequence, and on success to the batch of the body:
\* the same items in the same order, none cut and none added.
C4_VocabularyBatchOrEmpty ==
    SvcDone("getVocabularyByCategory") =>
      /\ svcResult.status = "resolved"
      /\ ServiceFailure(svcResponse) =>
           svcResult.value.kind = "array" /\ svcResult.value.arr = <<>>
      /\ IsBatch(svcResponse) =>
           /\ svcResult.value.kind = "array"
           /\ Len(svcResult.value.arr) = Len(svcResponse.text) - 2
           /\ \A i \in 1..(Len(svcResponse.text) - 2) :
                svcResult.value.arr[i] = ItemObject(svcResponse.text[i + 1])

\* C4's case: a batch of two different items was returned.
C4_Witness ==
    /\ SvcDone("getVocabularyByCategory")
    /\ svcResponse = TextResponse(<<"[", "i2", "i1", "]">>)
    /\ svcResult.status = "resolved"
    /\ Len(svcResult.value.arr) = 2
    /\ svcResult.value.arr[1].word = "w2"

IsBlank(s) == \A i \in 1..Len(s) : s[i] \in Whitespace

\* C5: a chat send whose input is empty or only whitespace is a no-op for
\* every history length: no call is issued, no turn is appended, and the
\* input and the loading flag are unchanged.
C5_BlankSendIsNoOp ==
    [][(handleSend /\ IsBlank(input))
         => UNCHANGED <<input, messages, chatLoading, chatPending>>]_vars

\* C5's case: a whitespace-only input over a history of two earlier turns,
\* with no call in flight.
C5_Witness ==
    /\ ChatMounted
    /\ input = <<"\n", " ">>
    /\ Len(messages) = 3
    /\ ~chatLoading
    /\ ~chatPending.active

\* C6: when the converse call fails, the send does not propagate the
\* failure: exactly one model turn with the apology text and the error flag
\* is appended after the user's turn, and loading returns to false.
C6_FailedSendAppendsApology ==
    [][handleSendResumes(CallRejects)
         => /\ messages[Len(messages)].role = "user"
            /\ messages' =
                 Append(messages,
                        [role |-> "model",
                         text |-> <<"Sorry, I had trouble connecting. Please try again.">>,
                         isError |-> TRUE])
            /\ chatLoading' = FALSE]_vars

\* C6's case: the thread ends with a user turn and its errored fallback.
C6_Witness ==
    /\ ChatMounted
    /\ Len(messages) >= 3
    /\ messages[Len(messages)].isError
    /\ messages[Len(messages) - 1].role = "user"
    /\ ~chatLoading

\* C7: every stream startCamera acquired is released on every exit from the
\* capture interaction (cancel, capture, navigation away): with the camera
\* modal gone, no acquired stream has running tracks, also when the exit
\* came while the acquisition was pending or inside the 100 ms delay.
C7_StreamsReleasedOnExit ==
    ~(TranslateMounted /\ showCamera) => ActiveStreams(streams, srcObject) = 0

\* Every acquisition has settled and every attach timer has run.
AllSettled ==
    Count(streams, {"pending", "orphanPending", "timer", "orphanTimer"}) = 0

\* C8: every sequence of startCamera and stopCamera that ends with
\* stopCamera after all acquisitions have settled leaves no acquired stream
\* active.
C8_StopLeavesNoActiveStream ==
    [][((closeCamera \/ captureAndTranslate) /\ AllSettled)
         => ActiveStreams(streams', srcObject') = 0]_vars

\* C9: speakText rejects whenever the response carries no audio payload,
\* and returns no buffer then.
C9_NoAudioRejects ==
    (SvcDone("speakText") /\ svcResponse.status = "ok"
       /\ (~svcResponse.hasData \/ svcResponse.data = <<>>))
      => svcResult.status = "rejected"

\* C9's case: a response without inline data was rejected.
C9_Witness ==
    /\ SvcDone("speakText")
    /\ svcResponse = NoAudio
    /\ svcResult.status = "rejected"
    /\ svcResult.error = "No audio data received"

\* The buffer speakText returned is the decoding of bytes: one channel of
\* Len(bytes)/2 samples, sample i the little-endian signed 16-bit value of
\* bytes 2i-1 and 2i over 32768, within [-1, 1].
DecodedAs(settled, bytes) ==
    /\ settled.status = "resolved"
    /\ settled.value.numberOfChannels = 1
    /\ Len(settled.value.channelData) * 2 = Len(bytes)
    /\ \A i \in 1..Len(settled.value.channelData) :
         LET smp == settled.value.channelData[i]
         IN  /\ smp.den = 32768
             /\ smp.num \in (0 - 32768)..32767
             /\ (smp.num - (bytes[2 * i - 1] + 256 * bytes[2 * i])) % 65536 = 0
             /\ 0 - smp.den <= smp.num
             /\ smp.num <= smp.den

\* C10 as stated: every even-length byte sequence is decoded.
C10_EveryEvenLengthDecodes ==
    (SvcDone("speakText") /\ svcResponse = AudioResponse(Btoa(svcBytes))
       /\ Len(svcBytes) % 2 = 0)
      => DecodedAs(svcResult, svcBytes)

\* C10, amended: every even-length byte sequence that is not empty is
\* decoded to a single-channel buffer of length/2 samples, sample i the
\* little-endian signed 16-bit value of bytes 2i and 2i+1 over 32768, so
\* within [-1.0, 1.0].
C10_NonEmptyEvenLengthDecodes ==
    (SvcDone("speakText") /\ svcResponse = AudioResponse(Btoa(svcBytes))
       /\ Len(svcBytes) % 2 = 0 /\ Len(svcBytes) > 0)
      => DecodedAs(svcResult, svcBytes)

\* C10's case: four bytes decoded to two samples, the first negative.
C10_Witness ==
    /\ SvcDone("speakText")
    /\ svcResponse = AudioResponse(Btoa(svcBytes))
    /\ svcBytes = <<1, 255, 255, 127>>
    /\ svcResult.status = "resolved"
    /\ svcResult.value.channelData[1].num = 0 - 255
    /\ svcResult.value.channelData[2].num = 32767

\* Re-encoding a sample: it is multiplied by 32768 and rounded to the nearest
\* integer (halves upward).
Reencode(smp) == (2 * smp.num * 32768 + smp.den) \div (2 * smp.den)

\* The 16-bit sample the service synthesized at index i: bytes 2i-1 and 2i,
\* low byte first, in two's complement.
OriginalSample(bytes, i) ==
    LET lo == bytes[2 * i - 1]
        hi == bytes[2 * i]
    IN  IF hi >= 128 THEN lo + 256 * hi - 65536 ELSE lo + 256 * hi

\* C11: for every even-length byte sequence, decoding and then re-encoding
\* each sample (times 32768, rounded to int16) recovers each original 16-bit
\* sample within plus or minus 1.
C11_RoundTripWithinOne ==
    (SvcDone("speakText") /\ svcResponse = AudioResponse(Btoa(svcBytes))
       /\ Len(svcBytes) % 2 = 0)
      => \A i \in 1..(Len(svcBytes) \div 2) :
           /\ svcResult.status = "resolved"
           /\ i \in DOMAIN svcResult.value.channelData
           /\ Reencode(svcResult.value.channelData[i]) - OriginalSample(svcBytes, i)
                \in {0 - 1, 0, 1}

\* C11's case: the two extreme samples, -32768 and 32767, were decoded and
\* re-encode to themselves.
C11_Witness ==
    /\ SvcDone("speakText")
    /\ svcResponse = AudioResponse(Btoa(svcBytes))
    /\ svcBytes = <<0, 128, 255, 127>>
    /\ svcResult.status = "resolved"
    /\ Reencode(svcResult.value.channelData[1]) = 0 - 32768
    /\ Reencode(svcResult.value.channelData[2]) = 32767

\* The translation requests in flight whose view is still mounted.
LiveRequests == {r \in requests : r.id # 0}

\* C12: a hung response to one operation never blocks an unrelated
\* operation: while one request stays pending, every other operation can
\* still be started.  In the translation view: while only an image
\* translation is pending, a text translation of a text that is not blank can
\* be started, that is, the Translate button is enabled.
C12_HungRequestBlocksNoOther ==
    (/\ TranslateMounted
     /\ NoAlert
     /\ LiveRequests # {}
     /\ \A r \in LiveRequests : r.kind = "image"
     /\ Trim(text) # <<>>)
      => ~TranslateDisabled

\* C13: getDailyWord and getVocabularyByCategory never return a partially
\* filled record: a body that is valid JSON but lacks a required field of the
\* declared schema is a parse failure, so what they resolve to is the
\* fallback entry or a record with every required field, and the empty
\* sequence or items with every required field.
C13_NoPartialRecord ==
    /\ SvcDone("getDailyWord") =>
         /\ svcResult.status = "resolved"
         /\ svcResult.value.kind = "object"
         /\ RequiredOfDailyWord \subseteq DOMAIN svcResult.value.obj
    /\ SvcDone("getVocabularyByCategory") =>
         /\ svcResult.status = "resolved"
         /\ svcResult.value.kind = "array"
         /\ \A i \in 1..Len(svcResult.value.arr) :
              RequiredOfVocabularyItem \subseteq DOMAIN svcResult.value.arr[i]

\* C14: a chat turn, once appended to the thread, stays in the thread with
\* unchanged role, text and error flag for the rest of the session, across
\* every later send and tab navigation.
C14_TurnsStayInThread ==
    [][\A i \in 1..Len(messages) :
         /\ i <= Len(messages')
         /\ messages'[i] = messages[i]]_vars

\* C15: when a text or image translation request fails, the result panel is
\* left empty: after the failure settles, result is null and loading is
\* false.  Stated for the request the mounted view issued last.
C15_FailedTranslationLeavesPanelEmpty ==
    [][\A r \in requests :
         (translationResumes(r, CallRejects) /\ r.id # 0 /\ r.id = nextReq - 1)
           => (result' = NoResult /\ loading' = FALSE)]_vars

\* C16: in every view that offers speech (chat, translation, lesson browser)
\* a failure to synthesize or play audio is surfaced as a blocking notice,
\* and the request is not retried.
C16_SpeechFailureIsNoticed ==
    [][\A t \in Tabs :
         (speechResumes(t, AudioRejects) \/ speechResumes(t, NoAudio))
           => /\ notice' # "none"
              /\ \A u \in Tabs : speech'[u] <= speech[u]]_vars

\* C17: when camera acquisition is denied or unavailable, the user is shown
\* a blocking notice and the capture UI is dismissed: showCamera becomes
\* false, and no stream is attached.  The notice is raised also when the
\* view that asked has been unmounted, whose capture UI is gone already.
C17_DeniedCameraIsNoticedAndDismissed ==
    [][\A k \in {"pending", "orphanPending"} :
         getUserMediaRejects(k)
           => /\ notice' = "Could not access camera. Please check permissions."
              /\ k = "pending" => (~showCamera' /\ srcObject' = NoStream)]_vars

\* C17's case: the acquisition of the mounted view was denied, the notice is
\* on screen and the camera modal is gone.
C17_Witness ==
    /\ TranslateMounted
    /\ notice = "Could not access camera. Please check permissions."
    /\ ~showCamera
    /\ srcObject = NoStream
    /\ streams["orphanPending"] = 0
    /\ streams["orphanTimer"] = 0

\* C18: for every odd-length byte sequence returned as the audio payload,
\* speakText follows one policy and never returns a buffer with a sample
\* built from the incomplete final byte.  Of the two policies the claim
\* allows, the code follows the first on every odd length: it rejects, with
\* the RangeError of the Int16Array constructor.
C18_OddLengthRejects ==
    (SvcDone("speakText") /\ svcResponse = AudioResponse(Btoa(svcBytes))
       /\ Len(svcBytes) % 2 = 1)
      => (svcResult.status = "rejected" /\ svcResult.error = "RangeError")

\* C18's case: a payload of three bytes was rejected.
C18_Witness ==
    /\ SvcDone("speakText")
    /\ svcResponse = AudioResponse(Btoa(svcBytes))
    /\ svcBytes = <<1, 255, 127>>
    /\ svcResult.status = "rejected"
    /\ svcResult.error = "RangeError"

\* The words the vocabulary service answers a category with.
WordsOf(category) == <<ItemObject(BatchText(category)[2])>>

\* C19: in the lesson browser the words of an earlier picked category are
\* never shown under a later picked one: once loadingLesson is false, the
\* lessonWords shown are the result of the request for the active category,
\* in every order of arrival of the responses.
C19_LessonWordsOfActiveCategory ==
    (LearnMounted /\ view = "lesson" /\ ~loadingLesson /\ lessonWords # <<>>)
      => lessonWords = WordsOf(activeCategory)

\* The converse requests in flight: the one of the mounted chat view and
\* those of chat views since unmounted.
ConverseInFlight == (IF chatPending.active THEN 1 ELSE 0) + chatOrphans

\* After the welcome turn the thread alternates user and model turns.
Alternates(thread) ==
    \A i \in 2..Len(thread) :
      thread[i].role = IF i % 2 = 0 THEN "user" ELSE "model"

\* C20: at most one converse request is in flight at any time, so the chat
\* thread after the initial welcome turn strictly alternates user and model
\* turns: every user turn is followed by exactly one model turn (reply or
\* errored fallback) before the next user turn is appended.
C20_OneConverseInFlight ==
    /\ ConverseInFlight <= 1
    /\ Alternates(messages)
    /\ (Len(messages) % 2 = 0) = chatPending.active

\* C21: the camera is started only in response to a user camera request (the
\* Lens button or the camera button of the Learn view): entering the
\* translation view through the navigation bar never starts the camera, also
\* after an earlier camera request from the Learn view.
C21_NavigationNeverStartsCamera ==
    [][setActiveTab("TRANSLATE")
         => (~showCamera' /\ streams'["pending"] = 0)]_vars

\* C23: after the translation direction is toggled, the result panel stays
\* empty until the user issues a new translation: a response to a request
\* issued before the toggle is never written to result afterwards.  A
\* request whose direction is not the current one was issued before a
\* toggle.
C23_StaleResponseAfterToggleNotWritten ==
    [][\A r \in requests : \A response \in TranslateResponses :
         (r.id # 0 /\ r.fromLang # fromLang /\ translationResumes(r, response))
           => result' = result]_vars

\* Every loading flag that is true has a call of its view in flight.
LoadingHasCall ==
    /\ chatLoading => chatPending.active
    /\ loading => LiveRequests # {}
    /\ (LearnMounted /\ loadingWord) => wordCalls > 0
    /\ loadingLesson => lessonCalls["Greetings"] + lessonCalls["Travel"] > 0

\* C22: every loading flag (chat loading, translation loading, loadingWord,
\* loadingLesson) that a user action sets to true returns to false in the
\* end, once the call of that action settles, whether it succeeds or fails;
\* no flag stays true with no request pending.
C22_LoadingFlagsReturnToFalse ==
    /\ []LoadingHasCall
    /\ chatLoading ~> ~chatLoading
    /\ loading ~> ~loading
    /\ (LearnMounted /\ loadingWord) ~> ~(LearnMounted /\ loadingWord)
    /\ loadingLesson ~> ~loadingLesson

\* C22's case: a refresh of the word of the day and a lesson request were
\* both answered and both flags are false again.
C22_Witness ==
    /\ LearnMounted
    /\ view = "lesson"
    /\ wordData.kind = "object"
    /\ lessonWords # <<>>
    /\ ~loadingWord
    /\ ~loadingLesson
    /\ wordCalls = 0
    /\ lessonCalls = [c \in CATEGORIES |-> 0]

=============================================================================
